---- MODULE Spec2Model ----
(***************************************************************************)
(* Model of src/pipeline.py: run_pipeline(new_batch_df) and _safe_div.     *)
(*                                                                         *)
(* A DataFrame / table is a record [cols |-> sequence of column names,     *)
(* rows |-> sequence of rows], a row being a function from the column      *)
(* names to cells.  A raw cell is <<>> (None / NaN / NaT) or <<v>>.        *)
(* A float produced by the feature engine is a record                      *)
(* [k |-> "num" | "nan" | "inf", n |-> numerator, d |-> denominator].      *)
(***************************************************************************)
EXTENDS Integers, Sequences, FiniteSets, TLC

VARIABLES
    stg,        \* committed contents of table stg_campaigns_raw
    fact,       \* committed rows of table fact_campaigns_clean
    tx_fact,    \* fact_campaigns_clean as seen inside the open publish transaction
    pc,         \* position of the caller inside run_pipeline
    aligned,    \* df_batch_aligned of the last call
    df_clean,   \* df_clean of the last call
    df_out,     \* df_out of the last call
    status,     \* outcome of the last call
    ingested,   \* history: every aligned row ever handed to the staging append
    pre_stg,    \* history: stg_campaigns_raw as it was when the last call began
    runs        \* number of calls made

vars == <<stg, fact, tx_fact, pc, aligned, df_clean, df_out, status, ingested, pre_stg, runs>>

------------------------------------------------------------------------------
(* Cells *)

None == <<>>
Some(x) == <<x>>
IsNull(c) == c = <<>>
Val(c) == c[1]

Range(s) == {s[i] : i \in 1..Len(s)}

\* The frame with the given columns and rows.
Frame(cols, rows) == [cols |-> cols, rows |-> rows]

EmptyFrame == Frame(<<>>, <<>>)

\* df[columns]: the projection of each row on the listed columns.
Project(df, cols) ==
    Frame(cols, [i \in 1..Len(df.rows) |-> [c \in Range(cols) |-> df.rows[i][c]]])

\* df[mask]: the frame with the rows the mask selected.
WithRows(df, rows) == Frame(df.cols, rows)

------------------------------------------------------------------------------
(* Column names *)

\* col.endswith(".1"), over the column names of the model.
EndsWithDot1(col) == col \in {"mark_spent.1", "mark_spent.1.1", "orders.1"}

\* col[:-2], over the column names of the model.
StripSuffix(col) ==
    CASE col = "mark_spent.1"   -> "mark_spent"
      [] col = "mark_spent.1.1" -> "mark_spent.1"
      [] col = "orders.1"       -> "orders"
      [] OTHER                  -> col

\* Columns of stg_campaigns_raw as the database reports them before the first call.
StgSchema ==
    <<"id", "c_date", "campaign_name", "impressions", "clicks", "leads", "orders",
      "mark_spent", "revenue", "mark_spent.1", "mark_spent.1.1", "orders.1">>

required_cols == <<"c_date", "campaign_name", "impressions", "clicks", "mark_spent", "revenue">>

numeric_cols == <<"impressions", "clicks", "leads", "orders", "mark_spent", "revenue">>

------------------------------------------------------------------------------
(* Dates: pd.to_datetime(errors="coerce") and dt.strftime("%Y-%m-%d").     *)
(* A timestamp is the number of days since 2024-01-01 (a Monday).          *)

DateTable ==
    << [s |-> "2024-01-05", ord |-> 4,  y |-> 2024, m |-> 1],
       [s |-> "2024-02-01", ord |-> 31, y |-> 2024, m |-> 2],
       [s |-> "2024-02-10", ord |-> 40, y |-> 2024, m |-> 2] >>

\* pd.to_datetime on one cell: NaT for a missing or unparseable value.
ToDatetime(c) ==
    IF IsNull(c) THEN None
    ELSE IF \E i \in 1..Len(DateTable) : DateTable[i].s = Val(c)
         THEN Some((CHOOSE e \in Range(DateTable) : e.s = Val(c)).ord)
         ELSE None

\* dt.strftime("%Y-%m-%d") on one timestamp.
Strftime(t) ==
    IF IsNull(t) THEN None
    ELSE Some((CHOOSE e \in Range(DateTable) : e.ord = Val(t)).s)

DayNames == <<"Monday", "Tuesday", "Wednesday", "Thursday", "Friday", "Saturday", "Sunday">>

DateEntry(t) == CHOOSE e \in Range(DateTable) : e.ord = Val(t)

\* dt.weekday: Monday is 0.
Weekday(t) == Val(t) % 7

------------------------------------------------------------------------------
(* Stage 1: schema alignment and the staging write (lines 39-62) *)

\* batch_cols_to_use and df_batch_aligned.
Align(batch, existing_cols) ==
    Project(batch, SelectSeq(batch.cols, LAMBDA c : c \in Range(existing_cols)))

\* to_sql("stg_campaigns_raw", if_exists="replace"): the table is dropped and
\* created again from the frame, so it then holds the frame and nothing else.
ToSqlStaging(table, df) == df

------------------------------------------------------------------------------
(* Stage 2: cleaning (lines 66-105) *)

\* df[base].equals(df[col]): equal in every row, missing values equal to each other.
SeriesEquals(df, a, b) == \A i \in 1..Len(df.rows) : df.rows[i][a] = df.rows[i][b]

\* cols_to_drop without the comparison of values.
ColsToDropByName(df) ==
    {col \in Range(df.cols) : EndsWithDot1(col) /\ StripSuffix(col) \in Range(df.cols)}

\* cols_to_drop: the ".1" columns identical to their base column.
ColsToDrop(df) ==
    {col \in Range(df.cols) :
        /\ EndsWithDot1(col)
        /\ StripSuffix(col) \in Range(df.cols)
        /\ SeriesEquals(df, StripSuffix(col), col)}

DropShadowColumns(df) ==
    Project(df, SelectSeq(df.cols, LAMBDA c : c \notin ColsToDrop(df)))

\* drop_duplicates(subset, keep="first").
DropDuplicatesFirst(df, subset) ==
    LET same(i, j) == \A c \in subset : df.rows[i][c] = df.rows[j][c]
        keep == {i \in 1..Len(df.rows) : ~\E j \in 1..(i - 1) : same(i, j)}
        F[i \in 0..Len(df.rows)] ==
            IF i = 0 THEN <<>>
            ELSE IF i \in keep THEN Append(F[i - 1], df.rows[i]) ELSE F[i - 1]
    IN Frame(df.cols, F[Len(df.rows)])

\* drop_duplicates(subset) with the default keep="first" in place of keep="last".
DropDuplicatesKeepDefault(df, subset) == DropDuplicatesFirst(df, subset)

\* drop_duplicates(subset, keep="last").
DropDuplicatesLast(df, subset) ==
    LET same(i, j) == \A c \in subset : df.rows[i][c] = df.rows[j][c]
        keep == {i \in 1..Len(df.rows) : ~\E j \in (i + 1)..Len(df.rows) : same(i, j)}
        F[i \in 0..Len(df.rows)] ==
            IF i = 0 THEN <<>>
            ELSE IF i \in keep THEN Append(F[i - 1], df.rows[i]) ELSE F[i - 1]
    IN Frame(df.cols, F[Len(df.rows)])

\* df_raw.drop_duplicates(); pandas returns a frame without columns as it is.
DropExactDuplicates(df) ==
    IF df.cols = <<>> THEN df ELSE DropDuplicatesFirst(df, Range(df.cols))

\* dropna(subset=existing_required)
DropMissingRequired(df) ==
    LET existing_required == Range(required_cols) \cap Range(df.cols)
    IN WithRows(df, SelectSeq(df.rows, LAMBDA r : \A c \in existing_required : ~IsNull(r[c])))

\* series > 0 on one cell: False for a missing value.
GtZero(c) == ~IsNull(c) /\ Val(c) > 0

\* series >= 0 on one cell: False for a missing value.
GeZero(c) == ~IsNull(c) /\ Val(c) >= 0

\* The impressions filter with >= in place of >.
ImpressionsNotNegative(df) ==
    IF "impressions" \in Range(df.cols)
    THEN WithRows(df, SelectSeq(df.rows, LAMBDA r : GeZero(r["impressions"])))
    ELSE df

\* if "impressions" in columns: df[df["impressions"] > 0]
ImpressionsPositive(df) ==
    IF "impressions" \in Range(df.cols)
    THEN WithRows(df, SelectSeq(df.rows, LAMBDA r : GtZero(r["impressions"])))
    ELSE df

\* for col in numeric_cols: if col in columns: df[df[col] >= 0]
NonNegative(df) ==
    LET present == Range(numeric_cols) \cap Range(df.cols)
    IN WithRows(df, SelectSeq(df.rows, LAMBDA r : \A c \in present : GeZero(r[c])))

\* c_date parsed, rows that do not parse dropped, c_date rewritten as YYYY-MM-DD.
NormalizeDate(df) ==
    IF "c_date" \in Range(df.cols)
    THEN LET parsed == WithRows(df, SelectSeq(df.rows, LAMBDA r : ~IsNull(ToDatetime(r["c_date"]))))
         IN Frame(df.cols,
                  [i \in 1..Len(parsed.rows) |->
                      [parsed.rows[i] EXCEPT !["c_date"] = Strftime(ToDatetime(@))]])
    ELSE df

\* sort_values on the parsed date, ascending; rows with equal dates keep their order
\* (numpy sorts fewer than 17 elements by insertion).
SortByDate(rows) ==
    LET key(r) == Val(ToDatetime(r["c_date"]))
        Insert(sorted, r) ==
            LET k == Cardinality({j \in 1..Len(sorted) : key(sorted[j]) <= key(r)})
            IN SubSeq(sorted, 1, k) \o <<r>> \o SubSeq(sorted, k + 1, Len(sorted))
        F[i \in 0..Len(rows)] == IF i = 0 THEN <<>> ELSE Insert(F[i - 1], rows[i])
    IN F[Len(rows)]

\* Lines 100-105; a frame with "id" and without "c_date" raises KeyError at line 103.
DedupRaises(df) == "id" \in Range(df.cols) /\ "c_date" \notin Range(df.cols)

DedupById(df) ==
    IF "id" \in Range(df.cols)
    THEN DropDuplicatesLast(Frame(df.cols, SortByDate(df.rows)), {"id"})
    ELSE df

\* The frame that reaches the dedup step.
PreDedup(df_raw) ==
    NormalizeDate(NonNegative(ImpressionsPositive(DropMissingRequired(
        DropExactDuplicates(DropShadowColumns(df_raw))))))

Clean(df_raw) == DedupById(PreDedup(df_raw))

------------------------------------------------------------------------------
(* Stage 3: feature engineering (lines 25-27, 108-130) *)

NaN == [k |-> "nan", n |-> 0, d |-> 1]
Inf(sign) == [k |-> "inf", n |-> sign, d |-> 1]
Num(n, d) == [k |-> "num", n |-> n, d |-> d]

\* A raw numeric cell as a float.
ToFloat(c) == IF IsNull(c) THEN NaN ELSE Num(Val(c), 1)

\* df.get(col, np.nan) for one row.
Get(df, r, col) == IF col \in Range(df.cols) THEN ToFloat(r[col]) ELSE NaN

\* numer / denom in IEEE arithmetic: x/0 is +-inf, 0/0 and anything with NaN is NaN.
Divide(numer, denom) ==
    IF numer.k = "nan" \/ denom.k = "nan" THEN NaN
    ELSE IF denom.n = 0
         THEN IF numer.n = 0 THEN NaN ELSE Inf(IF numer.n > 0 THEN 1 ELSE -1)
         ELSE IF denom.n > 0 THEN Num(numer.n * denom.d, numer.d * denom.n)
              ELSE Num(-(numer.n * denom.d), -(numer.d * denom.n))

\* The division without the np.where guard.
SafeDivUnguarded(numer, denom) == Divide(numer, denom)

\* np.where(denom == 0, np.nan, numer / denom); NaN == 0 is False.
_safe_div(numer, denom) ==
    IF denom.k = "num" /\ denom.n = 0 THEN NaN ELSE Divide(numer, denom)

\* x * 100
Times100(x) == IF x.k = "num" THEN Num(x.n * 100, x.d) ELSE x

\* x - y
Minus(x, y) ==
    IF x.k = "nan" \/ y.k = "nan" THEN NaN ELSE Num(x.n * y.d - y.n * x.d, x.d * y.d)

\* round(2): to hundredths, halves to the even neighbour; NaN and inf stay.
Round2(x) ==
    IF x.k # "num" THEN x
    ELSE LET q == (x.n * 100) \div x.d
             r == (x.n * 100) % x.d
         IN Num(IF 2 * r < x.d THEN q
                ELSE IF 2 * r > x.d THEN q + 1
                ELSE IF q % 2 = 0 THEN q ELSE q + 1, 100)

\* The columns the feature engine adds, under the names of rename_map.
FeatureCols ==
    <<"ctr_pct", "cpc", "cpa", "conversionrate_pct", "roas", "profit", "leadrate_pct",
      "year", "month", "weekday", "is_weekend">>

\* Line 109 raises KeyError on a frame without "c_date".
FeatureRaises(df) == "c_date" \notin Range(df.cols)

\* One row of df_out: the clean row and its derived columns, rounded and renamed.
Enrich(df, r) ==
    LET g(col) == Get(df, r, col)
        dt == ToDatetime(r["c_date"])
        wd == Weekday(dt)
    IN [c \in Range(df.cols) \cup Range(FeatureCols) |->
          CASE c = "ctr_pct" -> Round2(Times100(_safe_div(g("clicks"), g("impressions"))))
            [] c = "cpc" -> Round2(_safe_div(g("mark_spent"), g("clicks")))
            [] c = "cpa" -> Round2(_safe_div(g("mark_spent"), g("orders")))
            [] c = "conversionrate_pct" -> Round2(Times100(_safe_div(g("orders"), g("clicks"))))
            [] c = "roas" -> Round2(_safe_div(g("revenue"), g("mark_spent")))
            [] c = "profit" -> Round2(Minus(g("revenue"), g("mark_spent")))
            [] c = "leadrate_pct" -> Round2(Times100(_safe_div(g("leads"), g("clicks"))))
            [] c = "year" -> Some(DateEntry(dt).y)
            [] c = "month" -> Some(DateEntry(dt).m)
            [] c = "weekday" -> Some(DayNames[wd + 1])
            [] c = "is_weekend" -> Some(IF wd \in {5, 6} THEN 1 ELSE 0)
            [] OTHER -> r[c]]

\* df_out of a clean frame.
Features(df) ==
    Frame(df.cols \o FeatureCols, [i \in 1..Len(df.rows) |-> Enrich(df, df.rows[i])])

\* Whether the transformation of df_raw raises before the publish step.
Raises(df_raw) == DedupRaises(PreDedup(df_raw)) \/ FeatureRaises(PreDedup(df_raw))

------------------------------------------------------------------------------
(* Inputs *)

MaxRuns == 2
MaxRows == 2

\* Sequences over S of length at most n.
SeqsUpTo(S, n) == UNION {[1..k -> S] : k \in 0..n}

CoreCols == <<"id", "c_date", "campaign_name", "impressions", "clicks", "mark_spent", "revenue">>

\* A record of the core columns; the row of the end-to-end scenario by default.
CoreRow(id, date, impressions, clicks) ==
    [id |-> id, c_date |-> date, campaign_name |-> Some("A"),
     impressions |-> impressions, clicks |-> clicks,
     mark_spent |-> Some(5), revenue |-> Some(20), utm_source |-> Some("mail")]

\* An uploaded batch: the listed columns of the given rows.
Batch(cols, rows) == Project(Frame(cols, rows), cols)

\* Batches fed to a sequence of calls.
SeqBatches ==
    { Batch(CoreCols, <<>>),
      Batch(CoreCols \o <<"utm_source">>,
            <<CoreRow(Some(1), Some("2024-01-05"), Some(100), Some(10))>>),
      Batch(CoreCols, <<CoreRow(Some(7), Some("2024-02-01"), Some(100), Some(10))>>),
      Batch(CoreCols, <<CoreRow(Some(7), Some("2024-02-10"), Some(50), Some(0))>>),
      Batch(CoreCols, <<CoreRow(Some(2), Some("2024-02-10"), Some(0), Some(0))>>),
      Batch(CoreCols, <<CoreRow(Some(7), Some("2024-02-10"), Some(50), Some(0)),
                        CoreRow(Some(7), Some("2024-02-01"), Some(100), Some(10))>>),
      Batch(<<"id", "impressions", "clicks">>,
            <<CoreRow(Some(3), Some("2024-02-01"), Some(100), Some(10))>>),
      Batch(<<"utm_source">>,
            <<CoreRow(Some(4), Some("2024-02-01"), Some(100), Some(10))>>) }

------------------------------------------------------------------------------
(* The program *)

Init ==
    /\ stg = Frame(StgSchema, <<>>)
    /\ fact = <<>>
    /\ tx_fact = <<>>
    /\ pc = "idle"
    /\ aligned = EmptyFrame
    /\ df_clean = EmptyFrame
    /\ df_out = EmptyFrame
    /\ status = "none"
    /\ ingested = <<>>
    /\ pre_stg = Frame(StgSchema, <<>>)
    /\ runs = 0

\* run_pipeline, lines 38-146: the staging transaction, cleaning, features, renaming.
\* It ends with the KeyError of line 103 or 109, or enters the publish transaction.
RunPipeline(new_batch_df) ==
    /\ pc = "idle"
    /\ LET df_batch_aligned == Align(new_batch_df, stg.cols)
           table == ToSqlStaging(stg, df_batch_aligned)
           df_raw == table
       IN /\ stg' = table
          /\ aligned' = df_batch_aligned
          /\ ingested' = ingested \o df_batch_aligned.rows
          /\ pre_stg' = stg
          /\ IF Raises(df_raw)
             THEN /\ status' = "KeyError"
                  /\ pc' = "idle"
                  /\ df_clean' = EmptyFrame
                  /\ df_out' = EmptyFrame
             ELSE /\ status' = "running"
                  /\ pc' = "begun"
                  /\ df_clean' = Clean(df_raw)
                  /\ df_out' = Features(Clean(df_raw))
    /\ runs' = runs + 1
    /\ UNCHANGED <<fact, tx_fact>>

\* TRUNCATE run on an autocommitting connection: it takes effect at once.
TruncateAutocommit ==
    /\ pc = "begun"
    /\ tx_fact' = <<>>
    /\ fact' = <<>>
    /\ pc' = "truncated"
    /\ UNCHANGED <<stg, aligned, df_clean, df_out, status, ingested, pre_stg, runs>>

\* Line 149: engine.begin() opens the publish transaction on the committed table.
\* Line 150: TRUNCATE TABLE fact_campaigns_clean inside the transaction.
Truncate ==
    /\ pc = "begun"
    /\ tx_fact' = <<>>
    /\ pc' = "truncated"
    /\ UNCHANGED <<stg, fact, aligned, df_clean, df_out, status, ingested, pre_stg, runs>>

\* Lines 151-156: df_out.to_sql(if_exists="append") inside the transaction.
Insert ==
    /\ pc = "truncated"
    /\ tx_fact' = tx_fact \o df_out.rows
    /\ pc' = "inserted"
    /\ UNCHANGED <<stg, fact, aligned, df_clean, df_out, status, ingested, pre_stg, runs>>

\* A statement of the publish transaction raises: the with block rolls back.
PublishFails ==
    /\ pc \in {"begun", "truncated"}
    /\ tx_fact' = fact
    /\ pc' = "idle"
    /\ status' = "DBError"
    /\ UNCHANGED <<stg, fact, aligned, df_clean, df_out, ingested, pre_stg, runs>>

\* The with block of line 149 ends: the transaction commits; lines 158-164.
Commit ==
    /\ pc = "inserted"
    /\ fact' = tx_fact
    /\ pc' = "idle"
    /\ status' = "ok"
    /\ UNCHANGED <<stg, tx_fact, aligned, df_clean, df_out, ingested, pre_stg, runs>>

Publish == Truncate \/ Insert \/ PublishFails \/ Commit

Next ==
    \/ \E b \in SeqBatches : runs < MaxRuns /\ RunPipeline(b)
    \/ Publish

Spec == Init /\ [][Next]_vars

------------------------------------------------------------------------------
(* Inputs of a single call on the initial tables, for the cleaner and the      *)
(* feature engine.                                                             *)

\* Rows sharing and not sharing identifiers, with parseable and unparseable dates.
DedupRows ==
    { CoreRow(id, date, Some(100), clicks) :
        id \in {None, Some(7), Some(8)},
        date \in {Some("2024-01-05"), Some("2024-02-01"), Some("2024-02-10"), Some("soon")},
        clicks \in {Some(10), Some(20)} }

DedupBatches ==
    { Batch(cols, rows) :
        cols \in {CoreCols, SelectSeq(CoreCols, LAMBDA c : c # "id")},
        rows \in SeqsUpTo(DedupRows, MaxRows) }

CounterCols ==
    <<"c_date", "campaign_name", "impressions", "clicks", "leads", "orders",
      "mark_spent", "revenue">>

\* A record of the counter columns.
CounterRow(impressions, clicks, leads, orders, mark_spent, revenue) ==
    [c_date |-> Some("2024-02-01"), campaign_name |-> Some("A"),
     impressions |-> impressions, clicks |-> clicks, leads |-> leads,
     orders |-> orders, mark_spent |-> mark_spent, revenue |-> revenue]

CounterValues == {None, Some(-1), Some(0), Some(3)}

\* Rows in which at most two counters leave the valid values of the base row.
CounterRows ==
    LET base == CounterRow(Some(100), Some(10), Some(2), Some(1), Some(5), Some(20))
    IN { [base EXCEPT ![c1] = v1, ![c2] = v2] :
            c1 \in Range(numeric_cols), c2 \in Range(numeric_cols),
            v1 \in CounterValues, v2 \in CounterValues }

CounterSchemas ==
    { SelectSeq(CounterCols, LAMBDA c : c \notin absent) :
        absent \in {{}, {"leads"}, {"orders"}, {"leads", "orders"}, {"impressions"},
                    {"clicks"}, {"mark_spent"}, {"revenue", "leads"}} }

CounterBatches ==
    { Batch(cols, rows) : cols \in CounterSchemas, rows \in SeqsUpTo(CounterRows, 1) }

\* A record of the core columns and the ".1" columns.
ShadowRow(mark_spent, shadow, shadow2, orders_shadow) ==
    [c \in Range(CoreCols) \cup {"mark_spent.1", "mark_spent.1.1", "orders.1"} |->
        CASE c = "mark_spent"     -> mark_spent
          [] c = "mark_spent.1"   -> shadow
          [] c = "mark_spent.1.1" -> shadow2
          [] c = "orders.1"       -> orders_shadow
          [] OTHER -> CoreRow(Some(1), Some("2024-02-01"), Some(100), Some(10))[c]]

ShadowRows ==
    { ShadowRow(a, b, c, Some(1)) :
        a \in {None, Some(5)}, b \in {None, Some(5), Some(6)}, c \in {Some(5), Some(6)} }

ShadowSchemas ==
    { CoreCols \o <<"mark_spent.1">>,
      CoreCols \o <<"mark_spent.1", "mark_spent.1.1">>,
      CoreCols \o <<"mark_spent.1.1", "orders.1">>,
      SelectSeq(CoreCols, LAMBDA c : c # "mark_spent") \o <<"mark_spent.1">> }

ShadowBatches ==
    { Batch(cols, rows) : cols \in ShadowSchemas, rows \in SeqsUpTo(ShadowRows, MaxRows) }

CleanBatches == DedupBatches \cup CounterBatches \cup ShadowBatches

NextClean ==
    \/ \E b \in CleanBatches : runs = 0 /\ RunPipeline(b)
    \/ Publish

\* One call of run_pipeline on the initial tables.
SpecClean == Init /\ [][NextClean]_vars

------------------------------------------------------------------------------
(* Properties *)

\* The last call got past cleaning and feature engineering.
Cleaned == runs > 0 /\ status # "KeyError"

\* The last call returned normally.
Succeeded == pc = "idle" /\ status = "ok"

\* A cell holding a negative number.
IsNegative(c) == ~IsNull(c) /\ Val(c) < 0

\* Rows of the history laid out on the columns of a table, missing cells as NULL.
OnColumns(cols, rows) ==
    Frame(cols, [i \in 1..Len(rows) |->
                    [c \in Range(cols) |-> IF c \in DOMAIN rows[i] THEN rows[i][c] ELSE None]])

\* C1: every call leaves in the Staging Resource the rows it held before the call
\* followed by the rows of the aligned batch (nothing removed, the row count grows by
\* the size of the aligned batch), and that is the set read back for cleaning.
C1_StagingAccumulates ==
    [][runs' = runs + 1 => stg'.rows = stg.rows \o aligned'.rows]_vars

\* C2: after every successful call the Fact Resource is exactly the enriched projection
\* of the clean set of all rows ever ingested into staging.
C2_FactCoversHistory ==
    Succeeded => fact = Features(Clean(OnColumns(stg.cols, ingested))).rows

\* C3: a successful call with an empty batch leaves in the Fact Resource the enriched
\* projection of the staging data that existed before the call.
C3_EmptyBatchRepublishes ==
    (Succeeded /\ aligned.rows = <<>> /\ ~Raises(pre_stg))
        => fact = Features(Clean(pre_stg)).rows

\* C4: the committed Fact Resource changes only when the publish transaction commits,
\* and then to the complete new snapshot: it is never seen cleared or partly written,
\* and a failure inside the transaction leaves the previous snapshot.
C4_PublishIsAtomic ==
    [][fact' # fact => (pc = "inserted" /\ fact' = df_out.rows)]_vars

\* C4 witness: the transaction holds the new snapshot while the committed table still
\* holds a different, non-empty previous one.
C4_MidPublish ==
    pc = "inserted" /\ fact # <<>> /\ tx_fact = df_out.rows /\ tx_fact # fact

\* C5: with an id column, no two clean rows share an id, every id that reached the
\* dedup step survives once, and the surviving row carries the latest date among the
\* rows of that id that reached the dedup step.
C5_LatestWins ==
    (Cleaned /\ "id" \in Range(stg.cols)) =>
        LET pre == PreDedup(stg).rows
            kept == df_clean.rows
        IN /\ \A i, j \in 1..Len(kept) : i # j => kept[i]["id"] # kept[j]["id"]
           /\ \A i \in 1..Len(pre) : \E j \in 1..Len(kept) : kept[j]["id"] = pre[i]["id"]
           /\ \A j \in 1..Len(kept) : \A i \in 1..Len(pre) :
                pre[i]["id"] = kept[j]["id"] =>
                    Val(ToDatetime(pre[i]["c_date"])) <= Val(ToDatetime(kept[j]["c_date"]))
           /\ \A j \in 1..Len(kept) : \E i \in 1..Len(pre) : pre[i] = kept[j]

\* C5 witness: two staged rows share an id, the later-dated one ingested first, and the
\* published snapshot holds one row.
C5_SharedIdLaterFirst ==
    /\ Succeeded
    /\ Len(stg.rows) = 2 /\ "id" \in Range(stg.cols)
    /\ stg.rows[1]["id"] = Some(7) /\ stg.rows[2]["id"] = Some(7)
    /\ stg.rows[1]["c_date"] = Some("2024-02-10") /\ stg.rows[2]["c_date"] = Some("2024-02-01")
    /\ Len(fact) = 1

\* C6: every row of the clean set, of the enriched set and of the Fact Resource has
\* impressions > 0 when it has that column and a value >= 0 in every numeric counter
\* it has.
C6_RangesHold ==
    \A r \in Range(df_clean.rows) \cup Range(df_out.rows) \cup Range(fact) \cup Range(tx_fact) :
        /\ "impressions" \in DOMAIN r => GtZero(r["impressions"])
        /\ \A c \in Range(numeric_cols) \cap DOMAIN r : GeZero(r[c])

\* C6 witness: a staged row with impressions = 0 and every other field valid, and a
\* publish that completed without it.
C6_ZeroImpressionsStaged ==
    /\ Succeeded
    /\ Len(stg.rows) = 1
    /\ DOMAIN stg.rows[1] = Range(CounterCols)
    /\ stg.rows[1]["impressions"] = Some(0)
    /\ \A c \in Range(numeric_cols) \ {"impressions"} : GtZero(stg.rows[1][c])
    /\ fact = <<>>

\* The denominator column of each ratio KPI.
Denominator(kpi) ==
    CASE kpi = "ctr_pct" -> "impressions"
      [] kpi = "cpc" -> "clicks"
      [] kpi = "cpa" -> "orders"
      [] kpi = "conversionrate_pct" -> "clicks"
      [] kpi = "roas" -> "mark_spent"
      [] kpi = "leadrate_pct" -> "clicks"

RatioKpis == {"ctr_pct", "cpc", "cpa", "conversionrate_pct", "roas", "leadrate_pct"}

\* C8: in every enriched and published row, a ratio KPI whose denominator is 0, is
\* missing in the row or is a column the frame does not have is NaN; no ratio KPI is
\* infinite.
C8_UndefinedOnZeroDenominator ==
    \A r \in Range(df_out.rows) \cup Range(fact) : \A kpi \in RatioKpis :
        /\ r[kpi].k # "inf"
        /\ (\/ Denominator(kpi) \notin DOMAIN r
            \/ IsNull(r[Denominator(kpi)])
            \/ Val(r[Denominator(kpi)]) = 0) => r[kpi] = NaN

\* C8 witness: a published row with clicks = 0 and a positive spend, in a frame without
\* the orders column.
C8_ZeroClicksPublished ==
    /\ Succeeded
    /\ \E r \in Range(fact) :
        /\ {"clicks", "mark_spent"} \subseteq DOMAIN r /\ "orders" \notin DOMAIN r
        /\ r["clicks"] = Some(0) /\ GtZero(r["mark_spent"])
        /\ r["cpc"] = NaN /\ r["cpa"] = NaN

\* A ".1" column identical to its base column in the staged frame.
IsShadow(df, col) ==
    /\ EndsWithDot1(col)
    /\ StripSuffix(col) \in Range(df.cols)
    /\ \A i \in 1..Len(df.rows) : df.rows[i][col] = df.rows[i][StripSuffix(col)]

\* C9 as stated: a column X.1 is absent from the clean set exactly when a base column X
\* exists and equals it in every row, and the base column X is never dropped.
C9_BaseNeverDropped ==
    Cleaned =>
        \A col \in Range(stg.cols) : EndsWithDot1(col) =>
            /\ col \notin Range(df_clean.cols) <=> IsShadow(stg, col)
            /\ StripSuffix(col) \in Range(stg.cols) => StripSuffix(col) \in Range(df_clean.cols)

\* C9 amended: a column is absent from the clean set exactly when it is named X.1, a
\* base column X exists and equals it in every row; a base column is dropped only when
\* it is itself such a copy of its own base.
C9_ShadowDroppedIffIdentical ==
    Cleaned =>
        /\ \A col \in Range(stg.cols) : col \notin Range(df_clean.cols) <=> IsShadow(stg, col)
        /\ Range(df_clean.cols) \subseteq Range(stg.cols)

\* C9 witness: the staged frame holds an identical copy of mark_spent, which the
\* clean set lacks, and a second ".1" column that differs from its base, which it keeps.
C9_CopyDroppedDifferingKept ==
    /\ Cleaned
    /\ Len(stg.rows) = 2
    /\ {"mark_spent", "mark_spent.1", "mark_spent.1.1"} \subseteq Range(stg.cols)
    /\ stg.rows[1]["mark_spent"] # stg.rows[2]["mark_spent"]
    /\ IsShadow(stg, "mark_spent.1") /\ "mark_spent.1" \notin Range(df_clean.cols)
    /\ "mark_spent.1.1" \in Range(stg.cols) /\ ~IsShadow(stg, "mark_spent.1.1")
    /\ "mark_spent.1.1" \in Range(df_clean.cols)
    /\ "mark_spent" \in Range(df_clean.cols)

\* The frame that reaches the non-negativity step.
PreNonNegative(df_raw) ==
    ImpressionsPositive(DropMissingRequired(DropExactDuplicates(DropShadowColumns(df_raw))))

\* C10: the non-negativity step drops exactly the rows holding a negative value in a
\* numeric counter that is present: a row without a negative counter passes it.
C10_OnlyNegativesDropped ==
    LET pre == PreNonNegative(stg)
        present == Range(numeric_cols) \cap Range(pre.cols)
    IN NonNegative(pre) = WithRows(pre, SelectSeq(pre.rows, LAMBDA r : \A c \in present : ~IsNegative(r[c])))

\* C7: no call raises, whatever the batch: every call ends by publishing.
C7_NeverRaises == status # "KeyError"

====
